---------------------------- MODULE Spec2Model ----------------------------
(***************************************************************************)
(* r.change.stats: pixelwise change between two classification rasters.   *)
(*                                                                         *)
(* One run of main() (src/r.change.stats.py) followed by the atexit        *)
(* handler cleanup().  A raster is a row of pixels (a sequence of category *)
(* values); the GRASS modules main() calls (r.category, r.reclass,         *)
(* r.mapcalc, r.neighbors, g.rename, r.colors, r.stats, g.remove) are      *)
(* modelled by what they do to the rasters, their category tables and      *)
(* their colour tables.  A category token is the decimal string of an      *)
(* integer: it is kept as the integer, ordered as the string.              *)
(***************************************************************************)
EXTENDS Integers, Sequences, FiniteSets, TLC

(* ------------------------------ bounds -------------------------------- *)

\* Pixels of a small input raster: 1..MaxPixels.
MaxPixels == 2

\* Category values of the small input rasters.  As strings "1" < "10" < "2".
CatsFrom == {1, 2, 10}
CatsTo == {1, 2}

\* The factor of the "to" reclassification (str(1000 * int(item))) and the
\* modulus and divisor of the decoding.
Multiplier == 1000

\* Label texts of the input rasters; "" is a category without a label.
LabelA == [c \in CatsFrom |-> CASE c = 1 -> "A" [] c = 2 -> "B" [] OTHER -> "C"]
LabelSwap == [c \in CatsFrom |-> CASE c = 1 -> "B" [] c = 2 -> "A" [] OTHER -> "C"]
LabelPart == [c \in CatsFrom |-> CASE c = 1 -> "A" [] c = 2 -> "" [] OTHER -> "C"]
NoLabels == [c \in CatsFrom |-> ""]

(* --------------------------- text and lists --------------------------- *)

DigitStr(d) ==
    CASE d = 0 -> "0" [] d = 1 -> "1" [] d = 2 -> "2" [] d = 3 -> "3"
      [] d = 4 -> "4" [] d = 5 -> "5" [] d = 6 -> "6" [] d = 7 -> "7"
      [] d = 8 -> "8" [] OTHER -> "9"

\* str(n) of a non-negative integer.
RECURSIVE Str(_)
Str(n) == IF n < 10 THEN DigitStr(n) ELSE Str(n \div 10) \o DigitStr(n % 10)

RECURSIVE Digits(_)
Digits(n) == IF n < 10 THEN <<n>> ELSE Append(Digits(n \div 10), n % 10)

RECURSIVE LexLess(_, _)
LexLess(s, t) ==
    IF s = <<>> THEN t # <<>>
    ELSE IF t = <<>> THEN FALSE
    ELSE IF Head(s) # Head(t) THEN Head(s) < Head(t)
    ELSE LexLess(Tail(s), Tail(t))

\* Python's order of two category tokens: the order of their strings.
StrLess(a, b) == LexLess(Digits(a), Digits(b))

NumLess(a, b) == a < b

Range(s) == {s[i] : i \in 1..Len(s)}

IsFirst(p) == p[2]

\* The distinct values of a sequence, ascending.
Distinct(s) ==
    LET t == SortSeq(s, NumLess)
        u == SelectSeq([i \in 1..Len(t) |-> <<t[i], i = 1 \/ t[i] # t[i - 1]>>],
                       IsFirst)
    IN  [i \in 1..Len(u) |-> u[i][1]]

\* list.index(v), 1-based; 0 stands for the ValueError of a missing value.
Index(s, v) ==
    IF \E i \in 1..Len(s) : s[i] = v
    THEN CHOOSE i \in 1..Len(s) : s[i] = v /\ \A j \in 1..(i - 1) : s[j] # v
    ELSE 0

Abs(x) == IF x < 0 THEN -x ELSE x

\* The exceptions that end main().
CalledModuleError == "CalledModuleError"
IntValueError == "ValueError: invalid literal for int()"
IndexValueError == "ValueError: is not in list"

(* ------------------------------- state -------------------------------- *)

VARIABLES
    pc,                 \* the statement of main() to run next
    options,            \* options["ignore_value"], options["window_size"]
    flags,              \* flags["f"], flags["c"], flags["l"]
    input1, input2,     \* the pixels of input[0] and input[1]
    label1, label2,     \* the category labels of input[0] and input[1]
    rasters,            \* the rasters this run has made: name -> pixels
    raster_labels,      \* their category tables: name -> (value -> label)
    colors,             \* the colour rules of the output raster
    rm_rasters,         \* the global list cleanup() works through
    cats_in1, cats_in2,
    ignore_val_exists,
    ignore_label,       \* <<>> is None
    labels,
    labellist,
    all_cats,
    new_ignore_val,     \* 0 while unassigned
    cats_cd_tmp,
    cd_labels,
    cats_to_ignore,
    old_vals,
    out_vals_labels,
    ignore_out_cat,     \* 0 while unassigned
    stats,              \* the printed or written table
    warnings,
    exit_status         \* "running", "ok" or the exception main() ended by

inputs == <<options, flags, input1, input2, label1, label2>>

locals1 == <<cats_in1, cats_in2, ignore_val_exists, ignore_label, labels,
             labellist, all_cats, new_ignore_val>>

locals2 == <<cats_cd_tmp, cd_labels, cats_to_ignore, old_vals,
             out_vals_labels, ignore_out_cat>>

store == <<rasters, raster_labels, colors>>

vars == <<pc, inputs, store, rm_rasters, locals1, locals2, stats, warnings,
          exit_status>>

\* The names main() gives the rasters it makes ("%s_%s" % (..., os.getpid())).
map1_recl == "map1_out_pid"
map2_recl == "map2_out_pid"
out_tmpname == "output_pid"
out_tmpname2 == "output_temp2_pid"
reclassmap == "tmp_reclass_pid"
output == "output"

TempNames == {map1_recl, map2_recl, out_tmpname, out_tmpname2, reclassmap}

Exists(name) == name \in DOMAIN rasters

\* rasters with raster `name` written (r.reclass, r.mapcalc, r.neighbors).
WriteRaster(rs, name, pixels) ==
    [n \in (DOMAIN rs) \cup {name} |-> IF n = name THEN pixels ELSE rs[n]]

RemoveRaster(rs, name) == [n \in (DOMAIN rs) \ {name} |-> rs[n]]

HasIgnore == options.ignore_value # <<>>
str_val == options.ignore_value[1]

(* ------------------------------- inputs ------------------------------- *)

\* The option and flag settings of a run.  window_size <<>> with -f is the
\* flag given without the option; ignore value 7 is in neither input.
Unlabelled ==
    { [ignore_value |-> iv, window_size |-> fw[2], f |-> fw[1], c |-> FALSE,
       l |-> FALSE, label1 |-> NoLabels, label2 |-> NoLabels] :
        iv \in {<<>>, <<2>>, <<7>>},
        fw \in {<<FALSE, <<>>>>, <<TRUE, <<3>>>>, <<TRUE, <<>>>>} }
    \cup
    { [ignore_value |-> <<>>, window_size |-> <<>>, f |-> FALSE, c |-> TRUE,
       l |-> FALSE, label1 |-> NoLabels, label2 |-> NoLabels] }

Labelled ==
    { [ignore_value |-> iv, window_size |-> <<>>, f |-> FALSE, c |-> TRUE,
       l |-> TRUE, label1 |-> LabelA, label2 |-> l2] :
        iv \in {<<>>, <<2>>, <<7>>}, l2 \in {LabelA, LabelSwap, LabelPart} }

Settings == Unlabelled \cup Labelled

SmallRasters ==
    UNION { [1..n -> CatsFrom] \X [1..n -> CatsTo] : n \in 1..MaxPixels }

\* Rasters holding Multiplier - 1 or Multiplier distinct categories: every
\* category in one input, the other input constant.
BigRasters ==
    UNION { { <<[i \in 1..n |-> i], [i \in 1..n |-> 1]>>,
              <<[i \in 1..n |-> 1], [i \in 1..n |-> i]>> } :
            n \in {Multiplier - 1, Multiplier} }

Plain == [ignore_value |-> <<>>, window_size |-> <<>>, f |-> FALSE, c |-> FALSE,
          l |-> FALSE, label1 |-> NoLabels, label2 |-> NoLabels]

Start(r, s) ==
    /\ pc = "categories"
    /\ options = [ignore_value |-> s.ignore_value, window_size |-> s.window_size]
    /\ flags = [f |-> s.f, c |-> s.c, l |-> s.l]
    /\ input1 = r[1]
    /\ input2 = r[2]
    /\ label1 = s.label1
    /\ label2 = s.label2
    /\ rasters = <<>>
    /\ raster_labels = <<>>
    /\ colors = <<>>
    /\ rm_rasters = <<>>
    /\ cats_in1 = <<>>
    /\ cats_in2 = <<>>
    /\ ignore_val_exists = FALSE
    /\ ignore_label = <<>>
    /\ labels = s.l
    /\ labellist = <<>>
    /\ all_cats = <<>>
    /\ new_ignore_val = 0
    /\ cats_cd_tmp = <<>>
    /\ cd_labels = <<>>
    /\ cats_to_ignore = <<>>
    /\ old_vals = <<>>
    /\ out_vals_labels = <<>>
    /\ ignore_out_cat = 0
    /\ stats = <<>>
    /\ warnings = {}
    /\ exit_status = "running"

Init ==
    \/ \E r \in SmallRasters, s \in Settings : Start(r, s)
    \/ \E r \in BigRasters : Start(r, Plain)

(* ---------------------- main(), lines 145 to 207 ---------------------- *)

\* r.category map=...: the values present in the raster, ascending.
RCategory(pixels) == Distinct(pixels)

\* IgnoreValExists without the test: every given value is taken to exist.
IgnoreValExists_Given(c1, c2) == HasIgnore

\* Lines 154-156: str_val in cats_in1 or str_val in cats_in2.
IgnoreValExists(c1, c2) ==
    HasIgnore /\ (str_val \in Range(c1) \/ str_val \in Range(c2))

\* Lines 145-160: the category lists and the test of the ignore value.
ReadCategories ==
    /\ pc = "categories"
    /\ cats_in1' = RCategory(input1)
    /\ cats_in2' = RCategory(input2)
    /\ ignore_val_exists' = IgnoreValExists(cats_in1', cats_in2')
    /\ warnings' = IF HasIgnore /\ ~ignore_val_exists'
                   THEN warnings \cup {"Value to ignore does not exist in input maps"}
                   ELSE warnings
    /\ pc' = "labels"
    /\ UNCHANGED <<inputs, store, rm_rasters, ignore_label, labels, labellist,
                   all_cats, new_ignore_val, locals2, stats, exit_status>>

\* The (category, label) pairs r.category prints for a raster.
LabelPairs(cats, table) == {<<cats[i], table[cats[i]]>> : i \in 1..Len(cats)}

RECURSIVE Perms(_)
Perms(S) ==
    IF S = {} THEN {<<>>}
    ELSE UNION { { <<e>> \o q : q \in Perms(S \ {e}) } : e \in S }

\* list(set(...)): the orders a set of pairs may be listed in.  main() reads
\* labellist only by the first entry of a category, so the orders are listed
\* up to the order of the entries that share a category.
RECURSIVE ListOfSet(_, _)
ListOfSet(S, cs) ==
    IF cs = <<>> THEN {<<>>}
    ELSE UNION { { h \o t : t \in ListOfSet(S, Tail(cs)) } :
                 h \in Perms({q \in S : q[1] = Head(cs)}) }

\* Lines 169-172: the test main() makes of the pairs.
Unambiguous(pairs) ==
    Cardinality({q[2] : q \in pairs}) = Cardinality({q[1] : q \in pairs})

\* Lines 164-165: cat.split("\t")[1] fails on a category without a label.
EntirelyLabelled ==
    /\ \A i \in 1..Len(cats_in1) : label1[cats_in1[i]] # ""
    /\ \A i \in 1..Len(cats_in2) : label2[cats_in2[i]] # ""

\* Lines 182-185: the label of the first entry of the ignored value.
FirstLabel(list, cat) == list[CHOOSE i \in 1..Len(list) :
                               /\ list[i][1] = cat
                               /\ \A j \in 1..(i - 1) : list[j][1] # cat][2]

\* Lines 162-194: label mode, kept or given up.
CheckLabels ==
    /\ pc = "labels"
    /\ IF ~labels
       THEN UNCHANGED <<labels, labellist, ignore_label, warnings>>
       ELSE IF ~EntirelyLabelled
       THEN /\ labels' = FALSE
            /\ warnings' = warnings \cup {"Input rasters are not (entirely) labelled"}
            /\ UNCHANGED <<labellist, ignore_label>>
       ELSE LET pairs == LabelPairs(cats_in1, label1) \cup LabelPairs(cats_in2, label2)
            IN  \E list \in ListOfSet(pairs, Distinct(cats_in1 \o cats_in2)) :
                   /\ labellist' = list
                   /\ IF ~Unambiguous(pairs)
                      THEN /\ labels' = FALSE
                           /\ warnings' = warnings \cup {"Input raster labels are ambiguous"}
                           /\ UNCHANGED ignore_label
                      ELSE /\ ignore_label' =
                                 IF HasIgnore /\ ignore_val_exists
                                 THEN <<FirstLabel(list, str_val)>>
                                 ELSE ignore_label
                           /\ UNCHANGED <<labels, warnings>>
    /\ pc' = "universe"
    /\ UNCHANGED <<inputs, store, rm_rasters, cats_in1, cats_in2,
                   ignore_val_exists, all_cats, new_ignore_val, locals2, stats,
                   exit_status>>

\* new_cats and new_cats_t1000 (lines 201-202) at position i.
NewCat(i) == i
NewCatT1000(i) == Multiplier * i

\* Lines 196-198: list(set(cats_in1 + cats_in2)), sorted as strings.
SortedCats(c1, c2) == SortSeq(Distinct(c1 \o c2), StrLess)

\* Lines 196-207: the universe and the rank of the ignored value.
\* new_cats is np.arange(1, len(all_cats) + 1): new_cats[i] = i.
\* Line 206 raises ValueError when str_val is not in all_cats.
BuildUniverse ==
    /\ pc = "universe"
    /\ all_cats' = SortedCats(cats_in1, cats_in2)
    /\ IF HasIgnore /\ ignore_val_exists
       THEN IF Index(all_cats', str_val) = 0
            THEN /\ pc' = "exit"
                 /\ exit_status' = IndexValueError
                 /\ UNCHANGED new_ignore_val
            ELSE /\ new_ignore_val' = NewCat(Index(all_cats', str_val))
                 /\ pc' = "reclassify"
                 /\ UNCHANGED exit_status
       ELSE /\ pc' = "reclassify"
            /\ UNCHANGED <<new_ignore_val, exit_status>>
    /\ UNCHANGED <<inputs, store, rm_rasters, cats_in1, cats_in2,
                   ignore_val_exists, ignore_label, labels, labellist, locals2,
                   stats, warnings>>

(* ---------------------- main(), lines 209 to 242 ---------------------- *)

\* reclassify(), lines 119-127: r.reclass with the rules values_in[i] =
\* values_out[i]; a pixel no rule names becomes NULL (-1 here).
ReclassPixel(v, values_in, values_out) ==
    LET i == Index(values_in, v) IN IF i = 0 THEN -1 ELSE values_out[i]

Reclass(pixels, values_in, values_out) ==
    [i \in 1..Len(pixels) |-> ReclassPixel(pixels[i], values_in, values_out)]

\* Lines 209-216: the two reclassified rasters, then their registration.
Reclassify ==
    /\ pc = "reclassify"
    /\ rasters' =
          WriteRaster(
             WriteRaster(rasters, map1_recl,
                Reclass(input1, all_cats, [i \in 1..Len(all_cats) |-> NewCat(i)])),
             map2_recl,
             Reclass(input2, all_cats, [i \in 1..Len(all_cats) |-> NewCatT1000(i)]))
    /\ rm_rasters' = rm_rasters \o <<map1_recl, map2_recl>>
    /\ pc' = "mapcalc"
    /\ UNCHANGED <<inputs, raster_labels, colors, locals1, locals2, stats,
                   warnings, exit_status>>

\* ChangeCode with the test made on the reclassified values.
ChangeCode_OnRanks(a, b, r1, r2) == IF Abs(r1 - r2) < 1 THEN 0 ELSE r1 + r2

\* Line 223: if(abs(a - b) < GRASS_EPSILON, 0, r1 + r2) on integer rasters:
\* GRASS_EPSILON is 1.0e-15, so the test is abs(a - b) < 1.
ChangeCode(a, b, r1, r2) == IF Abs(a - b) < 1 THEN 0 ELSE r1 + r2

\* Lines 218-226: out_tmpname is registered, then r.mapcalc writes it.
Mapcalc ==
    /\ pc = "mapcalc"
    /\ rm_rasters' = Append(rm_rasters, out_tmpname)
    /\ rasters' = WriteRaster(rasters, out_tmpname,
          [i \in 1..Len(input1) |->
              ChangeCode(input1[i], input2[i],
                         rasters[map1_recl][i], rasters[map2_recl][i])])
    /\ pc' = "filter"
    /\ UNCHANGED <<inputs, raster_labels, colors, locals1, locals2, stats,
                   warnings, exit_status>>

\* grass.run_command raises when the module fails: main() ends there.
MapcalcFails ==
    /\ pc = "mapcalc"
    /\ rm_rasters' = Append(rm_rasters, out_tmpname)
    /\ pc' = "exit"
    /\ exit_status' = CalledModuleError
    /\ UNCHANGED <<inputs, store, locals1, locals2, stats, warnings>>

Min(a, b) == IF a < b THEN a ELSE b
Max(a, b) == IF a > b THEN a ELSE b

Count(vals, v) == Cardinality({i \in 1..Len(vals) : vals[i] = v})

\* The mode of r.neighbors: the most frequent value, the smallest of them
\* when several are as frequent.
Mode(vals) ==
    CHOOSE v \in Range(vals) :
        \A w \in Range(vals) :
            \/ Count(vals, w) < Count(vals, v)
            \/ Count(vals, w) = Count(vals, v) /\ v <= w

\* r.neighbors method=mode size=size on a row of pixels: the window of a
\* pixel holds the pixels of the row within (size - 1) / 2 of it.
Neighbors(pixels, size) ==
    LET h == (size - 1) \div 2
    IN  [i \in 1..Len(pixels) |->
            Mode(SubSeq(pixels, Max(1, i - h), Min(Len(pixels), i + h)))]

\* Lines 229-238: the mode filter; out_tmpname stays.
FilterMode ==
    /\ pc = "filter"
    /\ flags.f
    /\ options.window_size # <<>>
    /\ rasters' = WriteRaster(rasters, out_tmpname2,
                     Neighbors(rasters[out_tmpname], options.window_size[1]))
    /\ pc' = "list"
    /\ UNCHANGED <<inputs, raster_labels, colors, rm_rasters, locals1, locals2,
                   stats, warnings, exit_status>>

\* Line 230: int(options["window_size"]) of the empty string is a ValueError.
FilterNoSize ==
    /\ pc = "filter"
    /\ flags.f
    /\ options.window_size = <<>>
    /\ pc' = "exit"
    /\ exit_status' = IntValueError
    /\ UNCHANGED <<inputs, store, rm_rasters, locals1, locals2, stats, warnings>>

\* Lines 239-242: g.rename out_tmpname to out_tmpname2.
FilterRename ==
    /\ pc = "filter"
    /\ ~flags.f
    /\ rasters' = RemoveRaster(
                     WriteRaster(rasters, out_tmpname2, rasters[out_tmpname]),
                     out_tmpname)
    /\ pc' = "list"
    /\ UNCHANGED <<inputs, raster_labels, colors, rm_rasters, locals1, locals2,
                   stats, warnings, exit_status>>

Filter == FilterMode \/ FilterNoSize \/ FilterRename

\* r.neighbors or g.rename fails: run_command raises.
FilterFails ==
    /\ pc = "filter"
    /\ flags.f => options.window_size # <<>>
    /\ pc' = "exit"
    /\ exit_status' = CalledModuleError
    /\ UNCHANGED <<inputs, store, rm_rasters, locals1, locals2, stats, warnings>>

(* ---------------------- main(), lines 244 to 290 ---------------------- *)

\* Lines 244-247: the codes present in the (filtered) change raster.
ListChange ==
    /\ pc = "list"
    /\ cats_cd_tmp' = RCategory(rasters[out_tmpname2])
    /\ pc' = "decode"
    /\ UNCHANGED <<inputs, store, rm_rasters, locals1, cd_labels,
                   cats_to_ignore, old_vals, out_vals_labels, ignore_out_cat,
                   stats, warnings, exit_status>>

\* grass.parse_command raises when r.category fails.
ListChangeFails ==
    /\ pc = "list"
    /\ pc' = "exit"
    /\ exit_status' = CalledModuleError
    /\ UNCHANGED <<inputs, store, rm_rasters, locals1, locals2, stats, warnings>>

\* ChangedFromReclass with a modulus one digit short.
ChangedFromReclass_Mod100(item) == item % (Multiplier \div 10)

\* Lines 254-255.
ChangedFromReclass(item) == item % Multiplier
ChangedToReclass(item) == (item - ChangedFromReclass(item)) \div Multiplier

\* IsIgnored without the test of the to-rank.
IsIgnored_FromOnly(item) ==
    /\ item # 0
    /\ HasIgnore /\ ignore_val_exists
    /\ ChangedFromReclass(item) = new_ignore_val

\* Lines 256-260: the test that puts a code in cats_to_ignore.
IsIgnored(item) ==
    /\ item # 0
    /\ HasIgnore /\ ignore_val_exists
    /\ \/ ChangedFromReclass(item) = new_ignore_val
       \/ ChangedToReclass(item) = new_ignore_val

\* Lines 261-266: all_cats[[item for item in new_cats].index(rank)];
\* <<>> stands for the ValueError of a rank that is not in new_cats.
CatOfRank(cats, rank) ==
    LET i == Index([k \in 1..Len(cats) |-> NewCat(k)], rank)
    IN  IF i = 0 THEN <<>> ELSE <<cats[i]>>

ChangedFrom(item) == CatOfRank(all_cats, ChangedFromReclass(item))
ChangedTo(item) == CatOfRank(all_cats, ChangedToReclass(item))

\* Lines 267-277: the text a category is shown by.
CatText(list, cat) == IF labels THEN FirstLabel(list, cat) ELSE Str(cat)

\* Lines 278-280.
ChangeLabel(from, to) == "Change from " \o from \o " to " \o to

NonZero(item) == item # 0

Decodable(item) == ChangedFrom(item) # <<>> /\ ChangedTo(item) # <<>>

\* Lines 250-280: cd_labels, with the labels looked up in list.
Legend(codes, list) ==
    LET items == SelectSeq(codes, NonZero)
    IN  <<<<0, "No Change">>>> \o
        [i \in 1..Len(items) |->
            <<items[i], ChangeLabel(CatText(list, ChangedFrom(items[i])[1]),
                                    CatText(list, ChangedTo(items[i])[1]))>>]

\* The codes the loop of lines 252-280 raises on.
Undecodable(items) ==
    {i \in 1..Len(items) : NonZero(items[i]) /\ ~Decodable(items[i])}

\* Lines 249-281: the legend of the codes present.
Decode ==
    /\ pc = "decode"
    /\ Undecodable(cats_cd_tmp) = {}
    /\ cats_to_ignore' = SelectSeq(cats_cd_tmp, IsIgnored)
    /\ cd_labels' = Legend(cats_cd_tmp, labellist)
    /\ pc' = "assign"
    /\ UNCHANGED <<inputs, store, rm_rasters, locals1, cats_cd_tmp, old_vals,
                   out_vals_labels, ignore_out_cat, stats, warnings, exit_status>>

\* Lines 261-266: list.index raises ValueError on a rank outside new_cats.
DecodeFails ==
    /\ pc = "decode"
    /\ Undecodable(cats_cd_tmp) # {}
    /\ pc' = "exit"
    /\ exit_status' = IndexValueError
    /\ UNCHANGED <<inputs, store, rm_rasters, locals1, locals2, stats, warnings>>

\* raster_labels with the category table of raster `name` set.
WriteLabels(rl, name, table) ==
    [n \in (DOMAIN rl) \cup {name} |-> IF n = name THEN table ELSE rl[n]]

\* Lines 283-290: r.category rules=-: the legend becomes the category table
\* of out_tmpname2.
AssignLabels ==
    /\ pc = "assign"
    /\ raster_labels' = WriteLabels(raster_labels, out_tmpname2, cd_labels)
    /\ pc' = "remap"
    /\ UNCHANGED <<inputs, rasters, colors, rm_rasters, locals1, locals2, stats,
                   warnings, exit_status>>

(* ---------------------- main(), lines 292 to 362 ---------------------- *)

\* The label r.category prints for a value: "" when the table has none.
LabelOf(table, v) ==
    LET i == Index([k \in 1..Len(table) |-> table[k][1]], v)
    IN  IF i = 0 THEN "" ELSE table[i][2]

\* Line 298: out_vals = range(len(old_vals_labels)), at list position idx.
OutVal(idx) == idx - 1

\* The margin of line 311.
IgnoreGap == 10

\* IgnoreOutCat as len(out_vals), without the margin.
IgnoreOutCat_Len(n) == OutVal(n) + 1

\* Line 311: max(out_vals) + 10, for n listed values.
IgnoreOutCat(n) == OutVal(n) + IgnoreGap

\* Lines 313-315: the label of the ignored areas.
IgnoredLabel ==
    IF ignore_label # <<>> /\ ignore_label[1] # ""
    THEN "areas ignored" \o " (" \o ignore_label[1] \o ")"
    ELSE "areas ignored"

\* Lines 309-315: the entry of list position idx, a code of cats_to_ignore
\* getting the ignore value and label.
RemapEntry(vals, idx, table) ==
    IF HasIgnore /\ ignore_val_exists /\ vals[idx] \in Range(cats_to_ignore)
    THEN <<IgnoreOutCat(Len(vals)), IgnoredLabel>>
    ELSE <<OutVal(idx), LabelOf(table, vals[idx])>>

\* Lines 292-315: the values of out_tmpname2 are numbered in the order
\* r.category lists them; reclassmap and out_tmpname2 are registered.
Remap ==
    /\ pc = "remap"
    /\ old_vals' = RCategory(rasters[out_tmpname2])
    /\ rm_rasters' = rm_rasters \o <<reclassmap, out_tmpname2>>
    /\ ignore_out_cat' = IF HasIgnore /\ ignore_val_exists
                         THEN IgnoreOutCat(Len(old_vals'))
                         ELSE ignore_out_cat
    /\ out_vals_labels' =
          [idx \in 1..Len(old_vals') |->
              RemapEntry(old_vals', idx, raster_labels[out_tmpname2])]
    /\ pc' = "persist"
    /\ UNCHANGED <<inputs, store, locals1, cats_cd_tmp, cd_labels,
                   cats_to_ignore, stats, warnings, exit_status>>

\* Line 293: grass.parse_command raises when r.category fails.
RemapFails ==
    /\ pc = "remap"
    /\ pc' = "exit"
    /\ exit_status' = CalledModuleError
    /\ UNCHANGED <<inputs, store, rm_rasters, locals1, locals2, stats, warnings>>

\* Lines 317-319: reclassmap, then the output raster as its copy.
Persist ==
    /\ pc = "persist"
    /\ LET pixels == Reclass(rasters[out_tmpname2], old_vals,
                             [i \in 1..Len(out_vals_labels) |-> out_vals_labels[i][1]])
       IN  /\ rasters' = WriteRaster(WriteRaster(rasters, reclassmap, pixels),
                                     output, pixels)
           /\ raster_labels' =
                 WriteLabels(WriteLabels(raster_labels, reclassmap, out_vals_labels),
                             output, out_vals_labels)
    /\ pc' = "colors"
    /\ UNCHANGED <<inputs, colors, rm_rasters, locals1, locals2, stats, warnings,
                   exit_status>>

\* Line 319: r.mapcalc fails after reclassify() has made reclassmap.
PersistFails ==
    /\ pc = "persist"
    /\ rasters' = WriteRaster(rasters, reclassmap,
          Reclass(rasters[out_tmpname2], old_vals,
                  [i \in 1..Len(out_vals_labels) |-> out_vals_labels[i][1]]))
    /\ raster_labels' = WriteLabels(raster_labels, reclassmap, out_vals_labels)
    /\ pc' = "exit"
    /\ exit_status' = CalledModuleError
    /\ UNCHANGED <<inputs, colors, rm_rasters, locals1, locals2, stats, warnings>>

\* Lines 321-325: r.colors color=random gives every value from the smallest
\* to the largest of the raster a rule; r.colors.out lists them without 0.
ColorsOut(pixels) ==
    LET vals == Distinct(pixels)
        lo == vals[1]
        n == vals[Len(vals)] - lo + 1
    IN  SelectSeq([i \in 1..n |-> lo + i - 1], NonZero)

\* Lines 329-332: the rule of a value, white for the ignored areas.
ColorRule(v) ==
    IF HasIgnore /\ ignore_val_exists /\ v = ignore_out_cat
    THEN <<v, "250:250:250">>
    ELSE <<v, "random">>

\* Lines 321-337: the colour table of the output raster.
Colors ==
    /\ pc = "colors"
    /\ colors' = LET colors_tmp == ColorsOut(rasters[output])
                 IN  <<<<0, "200:200:200">>>> \o
                     [i \in 1..Len(colors_tmp) |-> ColorRule(colors_tmp[i])]
    /\ pc' = "stats"
    /\ UNCHANGED <<inputs, rasters, raster_labels, rm_rasters, locals1, locals2,
                   stats, warnings, exit_status>>

\* Lines 322-325: r.colors or r.colors.out fails.
ColorsFails ==
    /\ pc = "colors"
    /\ pc' = "exit"
    /\ exit_status' = CalledModuleError
    /\ UNCHANGED <<inputs, store, rm_rasters, locals1, locals2, stats, warnings>>

\* r.stats -lp: a row for each value of the raster, with its label and the
\* number of its pixels (the share of the area, before the division).
RStats(pixels, table) ==
    LET vals == Distinct(pixels)
    IN  [i \in 1..Len(vals) |-> <<vals[i], LabelOf(table, vals[i]), Count(pixels, vals[i])>>]

\* Lines 339-351, csv_path omitted: main() ends after the table is printed.
Stats ==
    /\ pc = "stats"
    /\ stats' = IF flags.c
                THEN <<"raster value|label|percentage of covered area">>
                     \o RStats(rasters[output], raster_labels[output])
                ELSE stats
    /\ pc' = "exit"
    /\ exit_status' = "ok"
    /\ UNCHANGED <<inputs, store, rm_rasters, locals1, locals2, warnings>>

\* Line 348: r.stats fails.
StatsFails ==
    /\ pc = "stats"
    /\ flags.c
    /\ pc' = "exit"
    /\ exit_status' = CalledModuleError
    /\ UNCHANGED <<inputs, store, rm_rasters, locals1, locals2, stats, warnings>>

(* ------------------------------ cleanup() ----------------------------- *)

\* Lines 111-116: every raster of rm_rasters that exists is removed.
Cleanup ==
    /\ pc = "exit"
    /\ rasters' = [n \in (DOMAIN rasters) \ Range(rm_rasters) |-> rasters[n]]
    /\ raster_labels' =
          [n \in (DOMAIN raster_labels) \ Range(rm_rasters) |-> raster_labels[n]]
    /\ pc' = "end"
    /\ UNCHANGED <<inputs, colors, rm_rasters, locals1, locals2, stats, warnings,
                   exit_status>>

Next ==
    \/ ReadCategories
    \/ CheckLabels
    \/ BuildUniverse
    \/ Reclassify
    \/ Mapcalc
    \/ MapcalcFails
    \/ Filter
    \/ FilterFails
    \/ ListChange
    \/ ListChangeFails
    \/ Decode
    \/ DecodeFails
    \/ AssignLabels
    \/ Remap
    \/ RemapFails
    \/ Persist
    \/ PersistFails
    \/ Colors
    \/ ColorsFails
    \/ Stats
    \/ StatsFails
    \/ Cleanup

Spec == Init /\ [][Next]_vars

(* ------------------------------ properties ---------------------------- *)

IgnoreActive == HasIgnore /\ ignore_val_exists

\* Remap has run: the codes of old_vals have their output values.
Remapped == Len(out_vals_labels) > 0

\* The list positions of the codes main() has put in cats_to_ignore.
IgnoredIdx == {idx \in 1..Len(old_vals) : old_vals[idx] \in Range(cats_to_ignore)}

\* C1: a run whose merged universe has Multiplier or more categories writes
\* no raster (it is to end by a fatal error before the reclassification).
C1_CollisionGuard == Len(all_cats) >= Multiplier => DOMAIN rasters = {}

\* C2: with fewer than Multiplier categories in the universe, for every
\* category a of input 1 and every other category b of input 2 the code the
\* two reclassifications give the pair, rank(b) * 1000 + rank(a), decodes to
\* exactly (a, b); so no two pairs share a code.
C2_RoundTrip ==
    (pc = "mapcalc" /\ Len(all_cats) < Multiplier) =>
        \A i \in 1..Len(cats_in1), j \in 1..Len(cats_in2) :
            LET a == cats_in1[i]
                b == cats_in2[j]
                code == ReclassPixel(b, all_cats,
                                     [k \in 1..Len(all_cats) |-> NewCatT1000(k)])
                        + ReclassPixel(a, all_cats,
                                       [k \in 1..Len(all_cats) |-> NewCat(k)])
            IN  a # b => ChangedFrom(code) = <<a>> /\ ChangedTo(code) = <<b>>

\* C2 witness: the two reclassifications have run on a universe of
\* Multiplier - 1 categories, all of them in input 1.
C2_Witness ==
    /\ pc = "mapcalc"
    /\ Len(all_cats) = Multiplier - 1
    /\ Len(cats_in1) = Multiplier - 1

\* C3: in the change raster r.mapcalc writes, a pixel whose two inputs hold
\* the same category is 0, and a pixel whose inputs differ is
\* rank_to * 1000 + rank_from, which is not 0.
C3_NoChangeIdentity ==
    Exists(out_tmpname) =>
        \A i \in 1..Len(input1) :
            LET e == rasters[out_tmpname][i]
            IN  IF input1[i] = input2[i]
                THEN e = 0
                ELSE /\ e = Multiplier * Index(all_cats, input2[i])
                            + Index(all_cats, input1[i])
                     /\ e # 0

\* C3 witness: a change raster with an unchanged and a changed pixel.
C3_Witness ==
    /\ Exists(out_tmpname)
    /\ \E i \in 1..Len(input1) : input1[i] = input2[i]
    /\ \E i \in 1..Len(input1) : input1[i] # input2[i]

\* C4: output value 0 is given to code 0 only and is labelled "No Change";
\* every other code gets an output value other than 0.
C4_OrdinalZeroNoChange ==
    Remapped =>
        \A idx \in 1..Len(old_vals) :
            /\ out_vals_labels[idx][1] = 0 =>
                  old_vals[idx] = 0 /\ out_vals_labels[idx][2] = "No Change"
            /\ old_vals[idx] # 0 => out_vals_labels[idx][1] # 0

\* C5: with an ignore value that exists and a code in cats_to_ignore, every
\* such code gets the one value max(out_vals) + 10, every other code a
\* smaller value, and no two other codes the same value; the output raster
\* holds that value where the change raster holds such a code.
C5_IgnoredSentinel ==
    (Remapped /\ IgnoreActive /\ IgnoredIdx # {}) =>
        LET sentinel == (Len(old_vals) - 1) + 10
            others == (1..Len(old_vals)) \ IgnoredIdx
        IN  /\ \A idx \in IgnoredIdx : out_vals_labels[idx][1] = sentinel
            /\ \A idx \in others : out_vals_labels[idx][1] < sentinel
            /\ \A i \in others, j \in others :
                  i # j => out_vals_labels[i][1] # out_vals_labels[j][1]
            /\ (Exists(output) /\ Exists(out_tmpname2)) =>
                  \A q \in 1..Len(rasters[output]) :
                     rasters[out_tmpname2][q] \in Range(cats_to_ignore)
                        => rasters[output][q] = sentinel

\* C5 witness: an ignored change and a change that is not ignored, both in
\* the output raster.
C5_Witness ==
    /\ Remapped /\ IgnoreActive /\ Exists(output)
    /\ IgnoredIdx # {}
    /\ \E idx \in (1..Len(old_vals)) \ IgnoredIdx : old_vals[idx] # 0

\* C6: when the run has ended and cleanup() has run, none of the temporary
\* rasters exists.
C6_TempsDeleted == pc = "end" => (DOMAIN rasters) \cap TempNames = {}

\* The (category, label) pairs of the two inputs.
InputPairs == LabelPairs(RCategory(input1), label1) \cup LabelPairs(RCategory(input2), label2)

\* No category with two labels, no label with two categories.
Bijective(pairs) == \A q \in pairs, r \in pairs : (q[1] = r[1]) <=> (q[2] = r[2])

\* C7: after the label check of a run started with -l, label mode is on only
\* if every category of both inputs has a label and the pairs are a
\* bijection; when it is off a warning has been given.
C7_LabelModeBijection ==
    (flags.l /\ pc \notin {"categories", "labels"}) =>
        /\ labels => (\A q \in InputPairs : q[2] # "") /\ Bijective(InputPairs)
        /\ ~labels => warnings # {}

\* The ignore value is in neither input.
AbsentIgnore ==
    /\ HasIgnore
    /\ str_val \notin Range(RCategory(input1)) \cup Range(RCategory(input2))

\* C8: a run with an ignore value that is in neither input gives the
\* warning, does not end by the ValueError of the lookup of the value, puts
\* no code in cats_to_ignore, and numbers, labels and colours the codes as
\* the run without the option does: position idx gets value idx - 1 and the
\* label of its code, no value gets the colour of the ignored areas.
C8_AbsentIgnoreNoOp ==
    (AbsentIgnore /\ pc # "categories") =>
        /\ "Value to ignore does not exist in input maps" \in warnings
        /\ exit_status # IndexValueError
        /\ cats_to_ignore = <<>>
        /\ ignore_label = <<>>
        /\ \A idx \in 1..Len(out_vals_labels) :
              out_vals_labels[idx] = <<idx - 1, LabelOf(cd_labels, old_vals[idx])>>
        /\ \A k \in 1..Len(colors) :
              colors[k][2] = IF colors[k][1] = 0 THEN "200:200:200" ELSE "random"

\* C8 witness: such a run has ended well with two codes in its output.
C8_Witness ==
    /\ AbsentIgnore
    /\ pc = "end"
    /\ exit_status = "ok"
    /\ Len(out_vals_labels) > 1
    /\ Len(colors) > 1

\* C9: the legend and the label of the ignored value are the same whatever
\* order the (category, label) pairs are listed in.
C9_Determinism ==
    Len(cd_labels) > 0 =>
        \A list \in ListOfSet(Range(labellist), Distinct(cats_in1 \o cats_in2)) :
            /\ Legend(cats_cd_tmp, list) = cd_labels
            /\ (labels /\ IgnoreActive) => ignore_label = <<FirstLabel(list, str_val)>>

\* The labels main() gives the ignored areas.
IgnoredTexts ==
    {"areas ignored"} \cup {"areas ignored (" \o t \o ")" : t \in {"A", "B", "C"}}

\* C10: with an ignore value that exists, a code of the change raster gets
\* the value and the label of the ignored areas if and only if it is not 0
\* and its decoded from-category or to-category is the ignore value; code 0
\* keeps its own value and the label "No Change".
C10_IgnoredIff ==
    (Remapped /\ IgnoreActive) =>
        \A idx \in 1..Len(old_vals) :
            LET code == old_vals[idx]
                collapsed == /\ out_vals_labels[idx][1] = ignore_out_cat
                             /\ out_vals_labels[idx][2] \in IgnoredTexts
                involved == /\ code # 0
                            /\ \/ ChangedFrom(code) = <<str_val>>
                               \/ ChangedTo(code) = <<str_val>>
            IN  /\ collapsed <=> involved
                /\ code = 0 => out_vals_labels[idx] = <<idx - 1, "No Change">>

\* C10 witness: a pixel holds the ignore value in both inputs, another
\* changes from or to it, and both codes are remapped.
C10_Witness ==
    /\ Remapped /\ IgnoreActive /\ Exists(output)
    /\ \E q \in 1..Len(input1) : input1[q] = str_val /\ input2[q] = str_val
    /\ 0 \in Range(old_vals)
    /\ IgnoredIdx # {}
=============================================================================
